---------------------------- MODULE Spec2Model ----------------------------
(***************************************************************************)
(* MQTTQueuePublisher: a queue in front of an MQTT client, drained by a    *)
(* worker thread.  Two variants of the class exist in the repository:      *)
(*                                                                         *)
(*   "sentinel"  src/mqtt_tools/queue_publisher.py                         *)
(*               run() creates a deque and a thread; stop() puts a stop    *)
(*               entry at the left of the deque and joins the thread.      *)
(*   "drain"     src/src/mqtt_tools/queue_publisher.py                     *)
(*               __init__ creates a queue.Queue and a daemon thread;       *)
(*               stop() spins until the queue is empty, then loop_stop()   *)
(*               and disconnect().                                         *)
(*                                                                         *)
(* One behaviour of the model is one publisher instance of one variant,    *)
(* driven by a controlling thread that calls run() and stop(), in some     *)
(* behaviours (nctl = 2) a second thread that calls run() concurrently,    *)
(* any number of producers (append_payload is one atomic queue operation)  *)
(* and the worker threads the instance creates.  publish() calls are       *)
(* recorded in the order the client receives them; a delivery either       *)
(* completes (wait_for_publish() returns) or raises.                       *)
(***************************************************************************)
EXTENDS Naturals, Integers, Sequences, FiniteSets

\* ---- bounds of the model ----
MaxAppends == 2        \* append_payload calls that take effect
MaxRuns == 2           \* connect() calls, hence run() calls and threads created

\* ---- inputs ----
\* The requests (topic, payload, retain) producers pass to append_payload.
Requests == {<<"t", "m", FALSE>>, <<"t", "m", TRUE>>, <<"t", "stop", FALSE>>}

\* Thread 1 calls run() and stop(); thread 2, when the behaviour has it, calls
\* run() concurrently with thread 1.
Controllers == {1, 2}
Threads == 1..MaxRuns

\* QoS passed to publish() by both variants.
QOS == 2

\* The entry stop() puts in the deque: ["stop", "", False].
Sentinel == <<"stop", "", FALSE>>

NoEntry == <<>>

VARIABLES
    variant,        \* "sentinel" or "drain": which class this instance is
    nctl,           \* number of threads calling run()/stop() in this behaviour
    hasQ,           \* self._q exists
    q,              \* self._q, oldest entry first; entries are 3-element lists
    unfinished,     \* queue.Queue.unfinished_tasks (drain variant)
    t,              \* self._t: 0 is the Thread() of __init__, never started
    wpc,            \* per thread: where it is in _queue_publisher
    wreq,           \* per thread: the entry it dequeued and is delivering
    cpc,            \* per controlling thread: where it is in run()/stop()
    connected,      \* mqtt.Client: connect() called and not disconnect()
    loopRunning,    \* mqtt.Client: loop_start() called and not loop_stop()
    connectCalls,   \* number of connect() calls made on the client
    published,      \* the publish() calls the client received, in order
    appended,       \* the requests whose append took effect, in order
    appendErr,      \* the last append_payload call raised AttributeError
    stopCalled,     \* some stop() call has begun
    stopped,        \* a stop() call has returned and no run() has begun since
    mark,           \* per controller in stop(): Len(appended) at the call
    base            \* Len(appended) when the current queue was created

vars == <<variant, nctl, hasQ, q, unfinished, t, wpc, wreq, cpc, connected,
          loopRunning, connectCalls, published, appended, appendErr,
          stopCalled, stopped, mark, base>>

qvars == <<hasQ, q, unfinished>>
wvars == <<t, wpc, wreq>>
netvars == <<connected, loopRunning, connectCalls>>
histvars == <<appended, appendErr, stopCalled, stopped, mark, base>>

\* ---- helpers ----

\* threading.Thread.is_alive(): started and its target has not returned.
IsAlive(th) == th # 0 /\ wpc[th] \in {"len", "popleft", "get", "publish", "wait"}

\* Controlling thread c exists in this behaviour.
Active(c) == c <= nctl

Alive == {th \in Threads : IsAlive(th)}

\* The thread object a new threading.Thread(...) call yields.
NewThread == CHOOSE th \in Threads : wpc[th] = "none" /\ \A u \in Threads : wpc[u] = "none" => th <= u

\* The list append_payload stores, per variant.
SentinelEntry(topic, payload, retain) == <<payload, topic, retain>>
DrainEntry(topic, payload, retain) == <<topic, payload, retain>>

\* The publish() call each worker makes for a dequeued entry e:
\* sentinel unpacks payload, topic, retain; drain unpacks topic, payload, retain.
SentinelPublishCall(e) == <<e[2], e[1], QOS, e[3]>>
DrainPublishCall(e) == <<e[1], e[2], QOS, e[3]>>

\* q_size: len(self._q) (sentinel), self._q.qsize() (drain).  Without a queue
\* the attribute lookup raises AttributeError.
QSizeRaises == ~hasQ

\* Mutant of QSize: the drain variant reports unfinished_tasks, which also
\* counts the entry being delivered.
QSize_Unfinished == IF variant = "drain" THEN unfinished ELSE Len(q)

QSize == Len(q)

\* Mutant of IsStop: the test reads the entry's second field.
IsStop_Topic(e) == e[2] = "stop"

\* The worker's test on a dequeued entry: payload == "stop".
IsStop(e) == e[1] = "stop"

\* ---- initial state: after __init__ ----
Init ==
    /\ variant \in {"sentinel", "drain"}
    /\ nctl \in IF variant = "drain" THEN {1} ELSE Controllers
    /\ hasQ = (variant = "drain")
    /\ q = <<>>
    /\ unfinished = 0
    /\ t = IF variant = "drain" THEN 1 ELSE 0
    /\ wpc = [th \in Threads |-> IF variant = "drain" /\ th = 1 THEN "get" ELSE "none"]
    /\ wreq = [th \in Threads |-> NoEntry]
    /\ cpc = [c \in Controllers |-> "idle"]
    /\ connected = FALSE
    /\ loopRunning = FALSE
    /\ connectCalls = 0
    /\ published = <<>>
    /\ appended = <<>>
    /\ appendErr = FALSE
    /\ stopCalled = FALSE
    /\ stopped = FALSE
    /\ mark = [c \in Controllers |-> -1]
    /\ base = 0


\* ======================= sentinel variant ================================

\* run(): self.connect(mqtthost); self.loop_start()
Run_Connect(c) ==
    /\ Active(c)
    /\ variant = "sentinel"
    /\ cpc[c] = "idle"
    /\ connectCalls < MaxRuns
    /\ connected' = TRUE
    /\ connectCalls' = connectCalls + 1
    /\ loopRunning' = TRUE
    /\ cpc' = [cpc EXCEPT ![c] = "r_start_q"]
    /\ stopped' = FALSE
    /\ UNCHANGED <<variant, nctl, qvars, wvars, published, appended,
                   appendErr, stopCalled, mark, base>>

\* _start_q(): if self._t.is_alive() is False: ... else: warnings.warn(...)
\* The warning is output only; the call returns.
StartQ_IsAlive(c) ==
    /\ Active(c)
    /\ variant = "sentinel"
    /\ cpc[c] = "r_start_q"
    /\ cpc' = [cpc EXCEPT ![c] = IF IsAlive(t) THEN "idle" ELSE "r_new"]
    /\ UNCHANGED <<variant, nctl, qvars, wvars, netvars, published, histvars>>

\* Mutant of StartQ_New: the restart keeps the deque it finds.
StartQ_KeepQueue(c) ==
    /\ Active(c)
    /\ variant = "sentinel"
    /\ cpc[c] = "r_new"
    /\ hasQ' = TRUE
    /\ q' = q
    /\ t' = NewThread
    /\ wpc' = [wpc EXCEPT ![NewThread] = "created"]
    /\ cpc' = [cpc EXCEPT ![c] = "r_start"]
    /\ base' = Len(appended)
    /\ UNCHANGED <<variant, nctl, unfinished, wreq, netvars, published,
                   appended, appendErr, stopCalled, stopped, mark>>

\* _start_q(): self._q = collections.deque();
\*             self._t = threading.Thread(target=self._queue_publisher)
StartQ_New(c) ==
    /\ Active(c)
    /\ variant = "sentinel"
    /\ cpc[c] = "r_new"
    /\ hasQ' = TRUE
    /\ q' = <<>>
    /\ t' = NewThread
    /\ wpc' = [wpc EXCEPT ![NewThread] = "created"]
    /\ cpc' = [cpc EXCEPT ![c] = "r_start"]
    /\ base' = Len(appended)
    /\ UNCHANGED <<variant, nctl, unfinished, wreq, netvars, published,
                   appended, appendErr, stopCalled, stopped, mark>>

\* _start_q(): self._t.start().  Thread.start() on a thread that was already
\* started raises RuntimeError and run() is left by the exception.
StartQ_Start(c) ==
    /\ Active(c)
    /\ variant = "sentinel"
    /\ cpc[c] = "r_start"
    /\ wpc' = IF wpc[t] = "created" THEN [wpc EXCEPT ![t] = "len"] ELSE wpc
    /\ cpc' = [cpc EXCEPT ![c] = "idle"]
    /\ UNCHANGED <<variant, nctl, qvars, t, wreq, netvars, published,
                   histvars>>

\* Mutant of Stop_IsAlive: _end_q() without its is_alive test.
Stop_IsAlive_NoTest(c) ==
    /\ Active(c)
    /\ variant = "sentinel"
    /\ c = 1
    /\ cpc[c] = "idle"
    /\ hasQ
    /\ stopCalled' = TRUE
    /\ cpc' = [cpc EXCEPT ![c] = "s_appendleft"]
    /\ mark' = [mark EXCEPT ![c] = Len(appended)]
    /\ UNCHANGED <<variant, nctl, qvars, wvars, netvars, published, appended,
                   appendErr, stopped, base>>

\* stop() -> _end_q(): if self._t.is_alive() is True
Stop_IsAlive(c) ==
    /\ Active(c)
    /\ variant = "sentinel"
    /\ c = 1           \* thread 2 only calls run()
    /\ cpc[c] = "idle"
    /\ stopCalled' = TRUE
    /\ cpc' = [cpc EXCEPT ![c] = IF IsAlive(t) THEN "s_appendleft" ELSE "s_loop_stop"]
    /\ mark' = [mark EXCEPT ![c] = IF IsAlive(t) THEN Len(appended) ELSE -1]
    /\ UNCHANGED <<variant, nctl, qvars, wvars, netvars, published, appended,
                   appendErr, stopped, base>>

\* Mutant of EndQ_AppendLeft: the stop entry goes to the tail (append instead
\* of appendleft).
EndQ_Append(c) ==
    /\ Active(c)
    /\ variant = "sentinel"
    /\ cpc[c] = "s_appendleft"
    /\ q' = Append(q, Sentinel)
    /\ cpc' = [cpc EXCEPT ![c] = "s_join"]
    /\ UNCHANGED <<variant, nctl, hasQ, unfinished, wvars, netvars, published,
                   histvars>>

\* _end_q(): self._q.appendleft(["stop", "", False])
EndQ_AppendLeft(c) ==
    /\ Active(c)
    /\ variant = "sentinel"
    /\ cpc[c] = "s_appendleft"
    /\ q' = <<Sentinel>> \o q
    /\ cpc' = [cpc EXCEPT ![c] = "s_join"]
    /\ UNCHANGED <<variant, nctl, hasQ, unfinished, wvars, netvars, published,
                   histvars>>

\* Mutant of EndQ_Join: stop() goes on without waiting for the thread to
\* finish (the join is missing).
EndQ_Join_NoWait(c) ==
    /\ Active(c)
    /\ variant = "sentinel"
    /\ cpc[c] = "s_join"
    /\ cpc' = [cpc EXCEPT ![c] = IF wpc[t] = "created" THEN "idle" ELSE "s_loop_stop"]
    /\ UNCHANGED <<variant, nctl, qvars, wvars, netvars, published, histvars>>

\* _end_q(): self._t.join().  Returns once the thread has finished; join() on
\* a thread that was not started raises RuntimeError and stop() is left by the
\* exception, before loop_stop().
EndQ_Join(c) ==
    /\ Active(c)
    /\ variant = "sentinel"
    /\ cpc[c] = "s_join"
    /\ wpc[t] \in {"dead", "created"}
    /\ cpc' = [cpc EXCEPT ![c] = IF wpc[t] = "dead" THEN "s_loop_stop" ELSE "idle"]
    /\ UNCHANGED <<variant, nctl, qvars, wvars, netvars, published, histvars>>

\* stop(): self.loop_stop(), and stop() returns.
Stop_LoopStop(c) ==
    /\ Active(c)
    /\ variant = "sentinel"
    /\ cpc[c] = "s_loop_stop"
    /\ loopRunning' = FALSE
    /\ cpc' = [cpc EXCEPT ![c] = "idle"]
    /\ stopped' = TRUE
    /\ mark' = [mark EXCEPT ![c] = -1]
    /\ UNCHANGED <<variant, nctl, qvars, wvars, connected, connectCalls,
                   published, appended, appendErr, stopCalled, base>>

\* __exit__(): self.stop().  The exception arguments are not looked at, so
\* leaving the scope normally or by an exception is the same call.
Exit(c) == Stop_IsAlive(c)

\* Mutant of AppendPayload: a missing queue is created by the first append.
AppendPayload_Lazy(topic, payload, retain) ==
    /\ variant = "sentinel"
    /\ Len(appended) < MaxAppends
    /\ hasQ' = TRUE
    /\ q' = Append(q, SentinelEntry(topic, payload, retain))
    /\ appended' = Append(appended, <<topic, payload, retain>>)
    /\ appendErr' = FALSE
    /\ UNCHANGED <<variant, nctl, unfinished, wvars, cpc, netvars,
                   published, stopCalled, stopped, mark, base>>

\* append_payload(): self._q.append([payload, topic, retain]).  Without a
\* queue (run() never called) the attribute lookup raises AttributeError.
AppendPayload(topic, payload, retain) ==
    /\ variant = "sentinel"
    /\ Len(appended) < MaxAppends
    /\ IF hasQ
       THEN /\ q' = Append(q, SentinelEntry(topic, payload, retain))
            /\ appended' = Append(appended, <<topic, payload, retain>>)
            /\ appendErr' = FALSE
       ELSE /\ appendErr' = TRUE
            /\ UNCHANGED <<q, appended>>
    /\ UNCHANGED <<variant, nctl, hasQ, unfinished, wvars, cpc, netvars,
                   published, stopCalled, stopped, mark, base>>

\* _queue_publisher(): if len(self._q) > 0
\* (an empty deque sends the thread round the while loop again: no change)
QueuePublisher_Len(w) ==
    /\ variant = "sentinel"
    /\ wpc[w] = "len"
    /\ Len(q) > 0
    /\ wpc' = [wpc EXCEPT ![w] = "popleft"]
    /\ UNCHANGED <<variant, nctl, qvars, t, wreq, cpc, netvars, published,
                   histvars>>

\* _queue_publisher(): payload, topic, retain = self._q.popleft();
\* if payload == "stop": break.  popleft() on an empty deque raises IndexError,
\* which ends the thread.
QueuePublisher_PopLeft(w) ==
    /\ variant = "sentinel"
    /\ wpc[w] = "popleft"
    /\ IF q = <<>>
       THEN /\ wpc' = [wpc EXCEPT ![w] = "dead"]
            /\ UNCHANGED <<q, wreq>>
       ELSE /\ q' = Tail(q)
            /\ IF IsStop(Head(q))
               THEN /\ wpc' = [wpc EXCEPT ![w] = "dead"]
                    /\ UNCHANGED wreq
               ELSE /\ wpc' = [wpc EXCEPT ![w] = "publish"]
                    /\ wreq' = [wreq EXCEPT ![w] = Head(q)]
    /\ UNCHANGED <<variant, nctl, hasQ, unfinished, t, cpc, netvars,
                   published, histvars>>

\* _queue_publisher(): self.publish(topic, payload, 2, retain)
QueuePublisher_Publish(w) ==
    /\ variant = "sentinel"
    /\ wpc[w] = "publish"
    /\ published' = Append(published, SentinelPublishCall(wreq[w]))
    /\ wpc' = [wpc EXCEPT ![w] = "wait"]
    /\ UNCHANGED <<variant, nctl, qvars, t, wreq, cpc, netvars, histvars>>

\* _queue_publisher(): .wait_for_publish() returns; back to the while loop.
QueuePublisher_WaitForPublish(w) ==
    /\ variant = "sentinel"
    /\ wpc[w] = "wait"
    /\ wpc' = [wpc EXCEPT ![w] = "len"]
    /\ wreq' = [wreq EXCEPT ![w] = NoEntry]
    /\ UNCHANGED <<variant, nctl, qvars, t, cpc, netvars, published, histvars>>

\* _queue_publisher(): the delivery raises (publish() or wait_for_publish());
\* nothing catches it, so the thread ends.
QueuePublisher_Raise(w) ==
    /\ variant = "sentinel"
    /\ wpc[w] = "wait"
    /\ wpc' = [wpc EXCEPT ![w] = "dead"]
    /\ wreq' = [wreq EXCEPT ![w] = NoEntry]
    /\ UNCHANGED <<variant, nctl, qvars, t, cpc, netvars, published, histvars>>

NextSentinel ==
    \/ \E c \in Controllers : Run_Connect(c)
    \/ \E c \in Controllers : StartQ_IsAlive(c)
    \/ \E c \in Controllers : StartQ_New(c)
    \/ \E c \in Controllers : StartQ_Start(c)
    \/ \E c \in Controllers : Stop_IsAlive(c)
    \/ \E c \in Controllers : EndQ_AppendLeft(c)
    \/ \E c \in Controllers : EndQ_Join(c)
    \/ \E c \in Controllers : Stop_LoopStop(c)
    \/ \E c \in Controllers : Exit(c)
    \/ \E r \in Requests : AppendPayload(r[1], r[2], r[3])
    \/ \E w \in Threads : QueuePublisher_Len(w)
    \/ \E w \in Threads : QueuePublisher_PopLeft(w)
    \/ \E w \in Threads : QueuePublisher_Publish(w)
    \/ \E w \in Threads : QueuePublisher_WaitForPublish(w)
    \/ \E w \in Threads : QueuePublisher_Raise(w)

\* The sentinel variant with run() and stop() issued by one controlling
\* thread.
InitSentinel == Init /\ variant = "sentinel" /\ nctl = 1

\* A step of a worker thread: its loop goes on, and a delivery it waits for
\* is acknowledged or raises.
WorkerStep ==
    \E w \in Threads : \/ QueuePublisher_Len(w)
                       \/ QueuePublisher_PopLeft(w)
                       \/ QueuePublisher_Publish(w)
                       \/ QueuePublisher_WaitForPublish(w)
                       \/ QueuePublisher_Raise(w)

\* A step of the thread inside stop(), after its is_alive() test.
StopStep ==
    \E c \in Controllers : \/ EndQ_AppendLeft(c)
                           \/ EndQ_Join(c)
                           \/ Stop_LoopStop(c)

\* Both threads are scheduled again and again.
SpecSentinelFair ==
    InitSentinel /\ [][NextSentinel]_vars
        /\ WF_vars(WorkerStep) /\ WF_vars(StopStep)

\* ========================= drain variant =================================

\* The caller connects the client itself, "in the same way as for the base
\* mqtt.Client" (__init__ docstring; __main__ calls qp.connect(args.mqtthost)):
\* connect() and loop_start().
Drain_Connect(c) ==
    /\ Active(c)
    /\ variant = "drain"
    /\ cpc[c] = "idle"
    /\ connectCalls < MaxRuns
    /\ connected' = TRUE
    /\ connectCalls' = connectCalls + 1
    /\ loopRunning' = TRUE
    /\ UNCHANGED <<variant, nctl, qvars, wvars, cpc, published, histvars>>

\* stop() is called and enters its while True loop.
Drain_Stop(c) ==
    /\ Active(c)
    /\ variant = "drain"
    /\ cpc[c] = "idle"
    /\ stopCalled' = TRUE
    /\ mark' = [mark EXCEPT ![c] = Len(appended)]
    /\ cpc' = [cpc EXCEPT ![c] = "d_poll"]
    /\ UNCHANGED <<variant, nctl, qvars, wvars, netvars, published, appended,
                   appendErr, stopped, base>>

\* Mutant of Drain_Stop_Empty: stop() leaves its loop without testing the
\* queue.
Drain_Stop_NoTest(c) ==
    /\ Active(c)
    /\ variant = "drain"
    /\ cpc[c] = "d_poll"
    /\ cpc' = [cpc EXCEPT ![c] = "d_loop_stop"]
    /\ UNCHANGED <<variant, nctl, qvars, wvars, netvars, published, histvars>>

\* stop(): if self._q.empty() is True: break
\* (a non-empty queue sends the caller round the loop again: no change)
Drain_Stop_Empty(c) ==
    /\ Active(c)
    /\ variant = "drain"
    /\ cpc[c] = "d_poll"
    /\ q = <<>>
    /\ cpc' = [cpc EXCEPT ![c] = "d_loop_stop"]
    /\ UNCHANGED <<variant, nctl, qvars, wvars, netvars, published, histvars>>

\* stop(): self.loop_stop(); self.disconnect(), and stop() returns.
Drain_Stop_Disconnect(c) ==
    /\ Active(c)
    /\ variant = "drain"
    /\ cpc[c] = "d_loop_stop"
    /\ loopRunning' = FALSE
    /\ connected' = FALSE
    /\ cpc' = [cpc EXCEPT ![c] = "idle"]
    /\ stopped' = TRUE
    /\ mark' = [mark EXCEPT ![c] = -1]
    /\ UNCHANGED <<variant, nctl, qvars, wvars, connectCalls, published,
                   appended, appendErr, stopCalled, base>>

\* __exit__(): self.stop()
Drain_Exit(c) == Drain_Stop(c)

\* append_payload(): self._q.put_nowait([topic, payload, retain])
Drain_AppendPayload(topic, payload, retain) ==
    /\ variant = "drain"
    /\ Len(appended) < MaxAppends
    /\ q' = Append(q, DrainEntry(topic, payload, retain))
    /\ unfinished' = unfinished + 1
    /\ appended' = Append(appended, <<topic, payload, retain>>)
    /\ appendErr' = FALSE
    /\ UNCHANGED <<variant, nctl, hasQ, wvars, cpc, netvars, published,
                   stopCalled, stopped, mark, base>>

\* _queue_publisher(): topic, payload, retain = self._q.get()
\* (get() blocks while the queue is empty)
Drain_QueuePublisher_Get(w) ==
    /\ variant = "drain"
    /\ wpc[w] = "get"
    /\ q # <<>>
    /\ q' = Tail(q)
    /\ wreq' = [wreq EXCEPT ![w] = Head(q)]
    /\ wpc' = [wpc EXCEPT ![w] = "publish"]
    /\ UNCHANGED <<variant, nctl, hasQ, unfinished, t, cpc, netvars,
                   published, histvars>>

\* _queue_publisher(): self.publish(topic, payload, 2, retain)
Drain_QueuePublisher_Publish(w) ==
    /\ variant = "drain"
    /\ wpc[w] = "publish"
    /\ published' = Append(published, DrainPublishCall(wreq[w]))
    /\ wpc' = [wpc EXCEPT ![w] = "wait"]
    /\ UNCHANGED <<variant, nctl, qvars, t, wreq, cpc, netvars, histvars>>

\* Mutant of Drain_QueuePublisher_WaitForPublish: no while loop, the thread
\* ends after its first delivery.
Drain_QueuePublisher_WaitForPublish_Once(w) ==
    /\ variant = "drain"
    /\ wpc[w] = "wait"
    /\ unfinished' = unfinished - 1
    /\ wpc' = [wpc EXCEPT ![w] = "dead"]
    /\ wreq' = [wreq EXCEPT ![w] = NoEntry]
    /\ UNCHANGED <<variant, nctl, hasQ, q, t, cpc, netvars, published,
                   histvars>>

\* _queue_publisher(): .wait_for_publish() returns; self._q.task_done();
\* back to the while loop.
Drain_QueuePublisher_WaitForPublish(w) ==
    /\ variant = "drain"
    /\ wpc[w] = "wait"
    /\ unfinished' = unfinished - 1
    /\ wpc' = [wpc EXCEPT ![w] = "get"]
    /\ wreq' = [wreq EXCEPT ![w] = NoEntry]
    /\ UNCHANGED <<variant, nctl, hasQ, q, t, cpc, netvars, published,
                   histvars>>

\* Mutant of Drain_QueuePublisher_Raise: the failed entry is put back and the
\* loop goes on.
Drain_QueuePublisher_Raise_Requeue(w) ==
    /\ variant = "drain"
    /\ wpc[w] = "wait"
    /\ q' = <<wreq[w]>> \o q
    /\ wpc' = [wpc EXCEPT ![w] = "get"]
    /\ wreq' = [wreq EXCEPT ![w] = NoEntry]
    /\ UNCHANGED <<variant, nctl, hasQ, unfinished, t, cpc, netvars,
                   published, histvars>>

\* _queue_publisher(): the delivery raises (publish() or wait_for_publish());
\* nothing catches it, so the thread ends, before task_done().
Drain_QueuePublisher_Raise(w) ==
    /\ variant = "drain"
    /\ wpc[w] = "wait"
    /\ wpc' = [wpc EXCEPT ![w] = "dead"]
    /\ wreq' = [wreq EXCEPT ![w] = NoEntry]
    /\ UNCHANGED <<variant, nctl, qvars, t, cpc, netvars, published, histvars>>

NextDrain ==
    \/ \E c \in Controllers : Drain_Connect(c)
    \/ \E c \in Controllers : Drain_Stop(c)
    \/ \E c \in Controllers : Drain_Stop_Empty(c)
    \/ \E c \in Controllers : Drain_Stop_Disconnect(c)
    \/ \E c \in Controllers : Drain_Exit(c)
    \/ \E r \in Requests : Drain_AppendPayload(r[1], r[2], r[3])
    \/ \E w \in Threads : Drain_QueuePublisher_Get(w)
    \/ \E w \in Threads : Drain_QueuePublisher_Publish(w)
    \/ \E w \in Threads : Drain_QueuePublisher_WaitForPublish(w)
    \/ \E w \in Threads : Drain_QueuePublisher_Raise(w)

Next == NextSentinel \/ NextDrain

Spec == Init /\ [][Next]_vars

\* The drain variant when every delivery is acknowledged: the worker's
\* publish(...).wait_for_publish() never raises.
InitDrain == Init /\ variant = "drain"

NextDrainAcked ==
    \/ \E c \in Controllers : Drain_Connect(c)
    \/ \E c \in Controllers : Drain_Stop(c)
    \/ \E c \in Controllers : Drain_Stop_Empty(c)
    \/ \E c \in Controllers : Drain_Stop_Disconnect(c)
    \/ \E c \in Controllers : Drain_Exit(c)
    \/ \E r \in Requests : Drain_AppendPayload(r[1], r[2], r[3])
    \/ \E w \in Threads : Drain_QueuePublisher_Get(w)
    \/ \E w \in Threads : Drain_QueuePublisher_Publish(w)
    \/ \E w \in Threads : Drain_QueuePublisher_WaitForPublish(w)

\* A step of the daemon worker thread's loop.
DrainWorkerStep ==
    \E w \in Threads : \/ Drain_QueuePublisher_Get(w)
                       \/ Drain_QueuePublisher_Publish(w)
                       \/ Drain_QueuePublisher_WaitForPublish(w)

\* A step of a thread inside stop(): one round of its polling loop that finds
\* the queue empty, or the calls after the loop.
DrainStopStep ==
    \E c \in Controllers : Drain_Stop_Empty(c) \/ Drain_Stop_Disconnect(c)

\* Both threads are scheduled again and again.
SpecDrainFair ==
    InitDrain /\ [][NextDrainAcked]_vars
        /\ WF_vars(DrainWorkerStep) /\ WF_vars(DrainStopStep)


\* ============================ claims =====================================

\* The publish() call a request (topic, payload, retain) is due.
RequestCall(r) == <<r[1], r[2], QOS, r[3]>>

\* The publish() call the instance's worker makes for a queue entry.
PublishCall(e) == IF variant = "sentinel" THEN SentinelPublishCall(e) ELSE DrainPublishCall(e)

MapSeq(F(_), s) == [i \in 1..Len(s) |-> F(s[i])]

\* The calls due for the entries that workers have dequeued and not yet
\* passed to publish().
RECURSIVE InHandFrom(_)
InHandFrom(w) ==
    IF w > MaxRuns THEN <<>>
    ELSE (IF wpc[w] = "publish" THEN <<PublishCall(wreq[w])>> ELSE <<>>) \o InHandFrom(w + 1)

\* Every request appended so far is published, held by a worker about to
\* publish it, or still queued, in append order, with its own content.
Accounted == published \o InHandFrom(1) \o MapSeq(PublishCall, q) = MapSeq(RequestCall, appended)

\* Request number i of the append order has been passed to publish().
Published(i) == \E j \in 1..Len(published) : published[j] = RequestCall(appended[i])

\* A step of controller c inside run().
RunStep(c) ==
    \/ cpc[c] = "idle" /\ cpc'[c] = "r_start_q"
    \/ cpc[c] \in {"r_start_q", "r_new", "r_start"} /\ cpc'[c] # cpc[c]

\* C1: in both variants, while a worker is running and stop() has not been
\* called, no step drops, duplicates, reorders or alters a request: the
\* publish calls made, followed by the requests dequeued and about to be
\* published, followed by the queued ones, are the appended requests in
\* append order, each published with its own topic, payload, retain and QoS 2.
C1_PublishedInAppendOrder ==
    [][(~stopCalled /\ Alive # {} /\ Accounted) => Accounted']_vars

\* C2: sentinel variant: when stop() called on a running publisher has joined
\* the worker and is about to return, every request appended before the stop
\* call has been passed to publish().
C2_NoRequestLostByStop ==
    \A c \in Controllers :
        (variant = "sentinel" /\ cpc[c] = "s_loop_stop" /\ mark[c] >= 0)
            => \A i \in 1..mark[c] : Published(i)

\* C3: drain variant: when stop() has left its wait loop (and goes on to
\* loop_stop(), disconnect() and return), every request appended before the
\* stop call has been published and its wait_for_publish() has returned.
C3_DrainDeliversBeforeShutdown ==
    \A c \in Controllers :
        (variant = "drain" /\ cpc[c] = "d_loop_stop")
            => /\ \A i \in 1..mark[c] : Published(i)
               /\ Len(appended) - unfinished >= mark[c]

\* C4: sentinel variant, run() and stop() issued by one controlling thread:
\* in every state where a stop() call has returned and no later run() has
\* begun, no worker thread is alive.
C4_StopJoinsWorker ==
    (variant = "sentinel" /\ nctl = 1 /\ stopped) => Alive = {}

\* C4 witness: a stop() that returned after the worker left its loop on the
\* stop entry: nothing was published, the request appended before the stop is
\* still queued, and the thread has finished.
C4_Witness ==
    /\ variant = "sentinel" /\ nctl = 1 /\ stopped
    /\ appended = << <<"t", "m", FALSE>> >>
    /\ q = << SentinelEntry("t", "m", FALSE) >>
    /\ published = <<>>
    /\ t = 1 /\ wpc[1] = "dead"

\* C5: drain variant: in every state where stop() has returned, the worker
\* thread started by the constructor has terminated.
C5_DrainWorkerTerminated ==
    (variant = "drain" /\ stopped) => Alive = {}

\* C6: sentinel variant: at most one worker thread of the instance is alive,
\* in every reachable state, run() called from two threads included.
C6_AtMostOneWorker ==
    variant = "sentinel" => Cardinality(Alive) <= 1

\* C7: sentinel variant: a step of run() taken while the worker is running
\* changes neither the queue, nor the thread handle, nor the threads, nor the
\* transport connection and network loop.
C7_RunOnRunningIsNoOp ==
    [][\A c \in Controllers :
          (variant = "sentinel" /\ IsAlive(t) /\ RunStep(c))
              => /\ q' = q /\ hasQ' = hasQ
                 /\ t' = t /\ wpc' = wpc
                 /\ connectCalls' = connectCalls
                 /\ connected' = connected /\ loopRunning' = loopRunning]_vars

\* C8: sentinel variant: a worker that dequeues an entry and leaves its loop
\* has dequeued the entry stop() inserted, never one made by append_payload.
C8_SentinelDistinguished ==
    [][\A w \in Threads :
          (variant = "sentinel" /\ wpc[w] = "popleft" /\ q # <<>> /\ wpc'[w] = "dead")
              => Head(q) = Sentinel]_vars

\* C9: in both variants at most one publish of the instance is waiting for
\* its acknowledgment.
C9_OneInFlight ==
    Cardinality({w \in Threads : wpc[w] = "wait"}) <= 1

\* C10: sentinel variant: between the return of stop() and the next run(),
\* append_payload does not fail, an appended request goes to the tail of the
\* queue, nothing is dequeued and no publish call is made.
C10_AppendAfterStopKeepsRequests ==
    [][(variant = "sentinel" /\ stopped /\ stopped')
          => /\ published' = published
             /\ ~appendErr => ~appendErr'
             /\ \/ q' = q
                \/ /\ appended' # appended
                   /\ q' = Append(q, SentinelEntry(appended'[Len(appended')][1],
                                                   appended'[Len(appended')][2],
                                                   appended'[Len(appended')][3]))]_vars

\* A step of controller c inside a stop() call that found no live worker.
StopStepNotAlive(c) ==
    \/ cpc[c] = "idle" /\ cpc'[c] \in {"s_appendleft", "s_loop_stop"} /\ ~IsAlive(t)
    \/ cpc[c] = "s_loop_stop" /\ mark[c] = -1 /\ cpc'[c] # cpc[c]

\* C11: sentinel variant: stop() called when no worker is alive goes straight
\* to loop_stop() and returns: it never reaches the appendleft or the join,
\* and its steps leave the queue, the thread handle and the threads unchanged.
C11_StopWhenNotRunningIsNoOp ==
    [][\A c \in Controllers :
          (variant = "sentinel" /\ StopStepNotAlive(c))
              => /\ cpc'[c] = IF cpc[c] = "idle" THEN "s_loop_stop" ELSE "idle"
                 /\ q' = q /\ hasQ' = hasQ
                 /\ t' = t /\ wpc' = wpc /\ wreq' = wreq]_vars

\* C11 witness: a second stop() in a row on a publisher that was started and
\* stopped: it is past the is_alive test with no sentinel to insert, and the
\* queue still holds what the first stop() left.
C11_Witness ==
    /\ variant = "sentinel" /\ stopped
    /\ cpc[1] = "s_loop_stop" /\ mark[1] = -1
    /\ t # 0 /\ q # <<>>

\* The entries of the queue made by append_payload.
RealEntries == Len(SelectSeq(q, LAMBDA e : e # Sentinel))

InHandCount == Cardinality({w \in Threads : wpc[w] = "publish"})

\* C12: in both variants a request is attempted at most once, failed or not:
\* the publish calls made, the entries held for publishing and the entries
\* queued never outnumber the appended requests (a failed request is neither
\* put back nor published again).
C12_NoRedelivery ==
    Len(published) + InHandCount + RealEntries <= Len(appended)

\* C12 witness: the drain worker ended on a failed delivery of the first
\* request; the second request is queued and the first is not back.
C12_Witness ==
    /\ variant = "drain" /\ wpc[1] = "dead"
    /\ Len(appended) = 2 /\ Len(published) = 1 /\ Len(q) = 1
    /\ q[1] = DrainEntry(appended[2][1], appended[2][2], appended[2][3])

\* C13: in both variants, when __exit__ (that is stop()) has returned, no
\* worker thread is alive and the transport is disconnected.
C13_ExitCleansUp ==
    stopped => (Alive = {} /\ ~connected)

\* The instance has its first queue and thread (no restart, no second thread).
FirstQueue == hasQ /\ Cardinality({th \in Threads : wpc[th] # "none"}) = 1

NoSentinelQueued == \A i \in 1..Len(q) : q[i] # Sentinel

\* No worker has dequeued anything yet.
WorkerUntouched ==
    /\ \A th \in Threads : wpc[th] \in {"none", "created", "len", "get"}
    /\ published = <<>>

\* C14: in both variants, on a started publisher holding no stop entry,
\* q_size is K after K appends while the worker has not dequeued anything,
\* and 0 once every appended request has been dequeued for publishing.
C14_QSizeCountsPending ==
    (FirstQueue /\ NoSentinelQueued)
        => /\ WorkerUntouched => QSize = Len(appended)
           /\ Len(published) + InHandCount = Len(appended) => QSize = 0

\* C14 witness: two requests were appended and both dequeued, the second
\* still being delivered, and q_size is 0.
C14_Witness ==
    /\ FirstQueue /\ NoSentinelQueued
    /\ Len(appended) = 2 /\ Len(published) = 1 /\ InHandCount = 1
    /\ QSize = 0

IsPrefix(a, b) == Len(a) <= Len(b) /\ a = SubSeq(b, 1, Len(a))

AppendedCalls == MapSeq(RequestCall, appended)

\* The queued requests (stop entries left out) are the last requests of the
\* append order, appended since the queue was created.
QueuedAreLatest ==
    LET real == SelectSeq(q, LAMBDA e : e # Sentinel)
        n == Len(appended)
    IN  /\ Len(real) <= n - base
        /\ MapSeq(PublishCall, real) = SubSeq(AppendedCalls, n - Len(real) + 1, n)

\* C15: sentinel variant, one controlling thread: while stop() waits in its
\* join, the stop entry it put at the front is the only entry a worker
\* dequeues, and the worker that dequeues it ends; the requests behind it
\* stay queued (they are the latest of the append order) and, when nothing
\* was appended to an earlier queue, the publish calls made are a prefix of
\* the append order.
C15_SentinelOvertakesPending ==
    [][(variant = "sentinel" /\ nctl = 1)
          => /\ (cpc[1] = "s_join" /\ Len(q') < Len(q))
                    => /\ Head(q) = Sentinel
                       /\ \E w \in Threads : wpc[w] = "popleft" /\ wpc'[w] = "dead"
                       /\ published' = published
             /\ cpc[1] = "s_join" => RealEntries' >= RealEntries
             /\ QueuedAreLatest'
             /\ base' = 0 => IsPrefix(published', AppendedCalls')]_vars

\* C15 witness: stop() has joined the worker, which published the first of
\* two requests and then left on the stop entry; the second request is still
\* queued, unpublished.
C15_Witness ==
    /\ variant = "sentinel" /\ nctl = 1
    /\ cpc[1] = "s_loop_stop" /\ mark[1] = 2
    /\ Len(published) = 1 /\ RealEntries = 1 /\ NoSentinelQueued
    /\ appended[1][2] # "stop"

\* C16: drain variant, worker and caller scheduled fairly, every delivery
\* acknowledged, finitely many appends: every stop() that has entered its
\* polling loop eventually returns.
C16_DrainStopTerminates ==
    [](cpc[1] = "d_poll" => <>(cpc[1] = "idle" /\ stopped))

\* C16 witness: stop() was called when two requests had been appended, found
\* the queue empty only after the worker had taken both, and is about to
\* return.
C16_Witness ==
    /\ variant = "drain"
    /\ cpc[1] = "d_loop_stop" /\ mark[1] = 2
    /\ Len(published) = 2 /\ q = <<>>

\* C17: sentinel variant, one controlling thread, worker and caller
\* scheduled fairly, every delivery waited for ends (acknowledged or raising):
\* every stop() that found the worker alive eventually returns, whatever is
\* queued or appended meanwhile.
C17_SentinelStopTerminates ==
    [](cpc[1] = "s_appendleft" => <>(cpc[1] = "idle" /\ stopped))

\* C17 witness: stop() waits in join while the worker is still delivering one
\* request and another one is queued behind the stop entry.
C17_Witness ==
    /\ variant = "sentinel"
    /\ cpc[1] = "s_join"
    /\ wpc[t] = "wait"
    /\ Len(q) = 2 /\ Head(q) = Sentinel /\ q[2] # Sentinel

\* C18: drain variant: once the worker thread has ended on a raised delivery
\* it stays ended, no entry leaves the queue and nothing more is published,
\* whatever is appended later; and while entries are queued, a stop() in its
\* polling loop stays there.
C18_DeadDrainWorkerBlocksStop ==
    [][(variant = "drain" /\ wpc[t] = "dead")
          => /\ wpc'[t] = "dead" /\ t' = t
             /\ published' = published
             /\ IsPrefix(q, q')
             /\ (q # <<>> /\ cpc[1] = "d_poll") => (q' # <<>> /\ cpc'[1] = "d_poll")]_vars

\* C18 witness: the worker ended on its first delivery, a second request was
\* appended and stays queued, and stop() is polling.
C18_Witness ==
    /\ variant = "drain" /\ wpc[t] = "dead"
    /\ Len(appended) = 2 /\ Len(published) = 1 /\ Len(q) = 1
    /\ cpc[1] = "d_poll"

\* The requests a worker holds for publishing followed by the queued ones
\* (stop entries left out) are the latest requests of the append order, all
\* appended after the current queue was created.
PendingAppendedSinceStart ==
    LET pending == InHandFrom(1) \o MapSeq(PublishCall, SelectSeq(q, LAMBDA e : e # Sentinel))
        n == Len(appended)
    IN  /\ Len(pending) <= n - base
        /\ pending = SubSeq(AppendedCalls, n - Len(pending) + 1, n)

\* C19: sentinel variant, one controlling thread: the step of run() that finds
\* no worker alive leaves an empty queue, whatever the old one held; from then
\* on everything queued or held by the worker was appended after that step,
\* and every publish call is made for the request the worker holds.
C19_RestartDiscardsOldQueue ==
    [][(variant = "sentinel" /\ nctl = 1)
          => /\ (cpc[1] = "r_new" /\ cpc'[1] = "r_start")
                    => (q' = <<>> /\ base' = Len(appended) /\ published' = published)
             /\ PendingAppendedSinceStart'
             /\ published' # published
                    => published' = published \o InHandFrom(1)]_vars

\* C19 witness: the first request was left queued by stop() and the publisher
\* was started again; the new worker published the second request, appended
\* after the restart, and the first one was never published.
C19_Witness ==
    /\ variant = "sentinel" /\ nctl = 1
    /\ base = 1 /\ Len(appended) = 2 /\ t = 2
    /\ appended[1] # appended[2]
    /\ published = <<RequestCall(appended[2])>>

\* In the sentinel variant the queue exists exactly when _start_q has made it
\* (together with a thread); without it q_size raises, nothing is queued or
\* recorded as appended, and no thread exists.
NoQueueBeforeRun ==
    /\ hasQ <=> t # 0
    /\ ~hasQ => /\ QSizeRaises
                /\ q = <<>> /\ appended = <<>> /\ published = <<>>
                /\ \A w \in Threads : wpc[w] = "none"

\* In the drain variant the constructor has made the queue and started the
\* thread: q_size never raises and no append does.
QueueFromConstructor ==
    /\ hasQ /\ ~QSizeRaises
    /\ t = 1 /\ wpc[1] # "none"
    /\ ~appendErr
    /\ Len(q) <= Len(appended)

\* C20: sentinel variant: the queue exists only once run() has created it, and
\* an append_payload() that raises is one made without a queue, which queues
\* nothing and starts no thread (q_size raises as well).  Drain variant: queue
\* and worker exist from construction and every append is queued.
C20_QueueOnlyAfterRun ==
    [][/\ variant = "sentinel"
            => /\ NoQueueBeforeRun'
               /\ (~hasQ /\ hasQ') => \E c \in Controllers :
                                          cpc[c] = "r_new" /\ cpc'[c] = "r_start"
               /\ (~appendErr /\ appendErr')
                     => /\ ~hasQ /\ ~hasQ'
                        /\ q' = q /\ appended' = appended
                        /\ t' = t /\ wpc' = wpc
       /\ variant = "drain"
            => /\ QueueFromConstructor'
               /\ appended' # appended => q' = Append(q, appended'[Len(appended')])]_vars

\* C20 witness: append_payload() has raised on an instance whose run() was
\* never called: still no queue, no thread, nothing recorded.
C20_Witness ==
    /\ variant = "sentinel" /\ ~hasQ /\ appendErr
    /\ connectCalls = 0 /\ t = 0 /\ q = <<>>

=============================================================================
